---------------------------- MODULE Spec2Model ----------------------------
(***************************************************************************)
(* A model of the audit-code edge function of cybersentinel                *)
(* (supabase/functions/audit-code/index.ts): validatePayload, analyzeCode, *)
(* fetchGitHubRepo and the serve handler.                                  *)
(*                                                                         *)
(* JavaScript values are records tagged with their typeof ("t").  A string *)
(* is a sequence of tokens [c, n]: c is a character class ("w" word        *)
(* characters and hyphen, "ws" white space, "x" any other character), or a *)
(* literal piece of text, and n is the number of characters it stands for. *)
(* A token of class "json" is the text of one JSON value other than an     *)
(* array: e is the value it denotes and d what is wrong with the text.     *)
(***************************************************************************)
EXTENDS Integers, Sequences, FiniteSets, TLC

VARIABLES
    pc,             \* where the serve handler is
    req,            \* the request: [method, body]
    groqKey,        \* Deno.env.get('GROQ_API_KEY') is set
    validationError,\* what validatePayload returned
    repo,           \* fetchGitHubRepo: [owner, name] put into the API URLs
    tree,           \* fetchGitHubRepo: treeData.tree
    filesToScan,    \* fetchGitHubRepo: the selected tree items
    fileIdx,        \* fetchGitHubRepo: the next item of filesToScan to fetch
    files,          \* fetchGitHubRepo: the files fetched so far
    codeToAnalyze,  \* the text handed to analyzeCode
    completion,     \* what the completion API did for this request
    analysis,       \* the way analyzeCode took
    findings,       \* what analyzeCode returned
    severityCounts, \* serve: the reduce over findings
    history,        \* rows inserted into scan_history
    calls,          \* external calls issued, in order
    response,       \* the HTTP response sent
    served          \* the responses sent to the requests before this one

vars == << pc, req, groqKey, validationError, repo, tree, filesToScan,
           fileIdx, files, codeToAnalyze, completion, analysis, findings,
           severityCounts, history, calls, response, served >>

----------------------------------------------------------------------------
(* JavaScript values *)

Undefined == [t |-> "undefined"]
Null == [t |-> "null"]
Bool(b) == [t |-> "boolean", v |-> b]
Num(k) == [t |-> "number", v |-> k]
Str(s) == [t |-> "string", v |-> s]
Arr(s) == [t |-> "array", v |-> s]

\* A token: n characters of class (or literal text) c.
Tok(c, n) == [c |-> c, n |-> n]
\* A literal piece of text of n characters, as a one-token string.
Lit(c, n) == << Tok(c, n) >>

\* JavaScript's ToBoolean.
Truthy(x) ==
    CASE x.t = "undefined" -> FALSE
      [] x.t = "null" -> FALSE
      [] x.t = "boolean" -> x.v
      [] x.t = "number" -> x.v # 0
      [] x.t = "string" -> x.v # << >>
      [] OTHER -> TRUE

RECURSIVE StrLen(_)
\* String.prototype.length
StrLen(s) == IF s = << >> THEN 0 ELSE Head(s).n + StrLen(Tail(s))

\* \s: white space, line terminators included.
IsSpace(k) == k.c \in {"ws", "nl"}

RECURSIVE TrimStart(_)
TrimStart(s) ==
    IF s # << >> /\ IsSpace(Head(s)) THEN TrimStart(Tail(s)) ELSE s

RECURSIVE TrimEnd(_)
TrimEnd(s) ==
    IF s # << >> /\ IsSpace(s[Len(s)])
    THEN TrimEnd(SubSeq(s, 1, Len(s) - 1))
    ELSE s

\* String.prototype.trim
Trim(s) == TrimEnd(TrimStart(s))

RECURSIVE Slice(_, _)
\* String.prototype.slice(0, k): the first k characters.
Slice(s, k) ==
    IF s = << >> \/ k <= 0 THEN << >>
    ELSE IF Head(s).n <= k
         THEN << Head(s) >> \o Slice(Tail(s), k - Head(s).n)
         ELSE << Tok(Head(s).c, k) >>

----------------------------------------------------------------------------
(* validatePayload *)

MaxSnippetLength == 50000
MinSnippetLength == 10

MsgInvalidType == "Invalid type. Must be \"repo\" or \"snippet\""
MsgMissingContent == "Missing or invalid content"
MsgInvalidRepo == "Invalid GitHub repository URL format"
MsgTooShort == "Code snippet too short (minimum 10 characters)"
MsgTooLarge == "Code snippet too large (maximum 50KB)"
NoError == "null"

TypeRepo == Str(Lit("repo", 4))
TypeSnippet == Str(Lit("snippet", 7))

GitHubHost == Tok("github.com", 10)
Slash == Tok("/", 1)
Dot == Tok(".", 1)

\* [\w-]
IsWordTok(k) == k.c \in {"w", "git"}
\* [\w.-]: "github.com" is made of word characters and a dot.
IsNameTok(k) == k.c \in {"w", "git", ".", "github.com"}

\* /github\.com\/[\w-]+\/[\w.-]+/ matches s starting at token i.
GithubPatternAt(s, i) ==
    /\ s[i] = GitHubHost
    /\ i + 4 <= Len(s)
    /\ s[i + 1] = Slash
    /\ \E j \in (i + 2)..(Len(s) - 2) :
         /\ \A m \in (i + 2)..j : IsWordTok(s[m])
         /\ s[j + 1] = Slash
         /\ IsNameTok(s[j + 2])

\* The pattern without its host: [\w-]+\/[\w.-]+ anywhere in s.
GithubPatternTestNoHost(s) ==
    \E i \in 1..(Len(s) - 2) :
        IsWordTok(s[i]) /\ s[i + 1] = Slash /\ IsNameTok(s[i + 2])

\* githubPattern.test(content)
GithubPatternTest(s) == \E i \in 1..Len(s) : GithubPatternAt(s, i)

\* payload.type / payload.content: a property of a non-object is undefined.
Field(payload, name) ==
    IF payload.t = "object" THEN payload[name] ELSE Undefined

\* validatePayload with the content rule before the type rule.
validatePayloadContentFirst(payload) ==
    LET type == Field(payload, "type")
        content == Field(payload, "content")
    IN  IF ~Truthy(content) \/ content.t # "string"
        THEN MsgMissingContent
        ELSE IF ~Truthy(type) \/ type \notin {TypeRepo, TypeSnippet}
        THEN MsgInvalidType
        ELSE IF type = TypeRepo
        THEN IF ~GithubPatternTest(content.v) THEN MsgInvalidRepo ELSE NoError
        ELSE IF StrLen(Trim(content.v)) < MinSnippetLength THEN MsgTooShort
        ELSE IF StrLen(content.v) > MaxSnippetLength THEN MsgTooLarge
        ELSE NoError

\* validatePayload with the size rule before the too-short rule.
validatePayloadSizeFirst(payload) ==
    LET type == Field(payload, "type")
        content == Field(payload, "content")
    IN  IF ~Truthy(type) \/ type \notin {TypeRepo, TypeSnippet}
        THEN MsgInvalidType
        ELSE IF ~Truthy(content) \/ content.t # "string"
        THEN MsgMissingContent
        ELSE IF type = TypeRepo
        THEN IF ~GithubPatternTest(content.v) THEN MsgInvalidRepo ELSE NoError
        ELSE IF StrLen(content.v) > MaxSnippetLength THEN MsgTooLarge
        ELSE IF StrLen(Trim(content.v)) < MinSnippetLength THEN MsgTooShort
        ELSE NoError

validatePayload(payload) ==
    LET type == Field(payload, "type")
        content == Field(payload, "content")
    IN  IF ~Truthy(type) \/ type \notin {TypeRepo, TypeSnippet}
        THEN MsgInvalidType
        ELSE IF ~Truthy(content) \/ content.t # "string"
        THEN MsgMissingContent
        ELSE IF type = TypeRepo
        THEN IF ~GithubPatternTest(content.v) THEN MsgInvalidRepo ELSE NoError
        ELSE IF StrLen(Trim(content.v)) < MinSnippetLength THEN MsgTooShort
        ELSE IF StrLen(content.v) > MaxSnippetLength THEN MsgTooLarge
        ELSE NoError

----------------------------------------------------------------------------
(* Conversions used by analyzeCode *)

DigitChars == << "0", "1", "2", "3", "4", "5", "6", "7", "8", "9" >>
IsDigitTok(k) == \E d \in 1..10 : k.c = DigitChars[d] /\ k.n = 1
DigitValue(k) == (CHOOSE d \in 1..10 : k.c = DigitChars[d]) - 1

RECURSIVE Digits(_)
\* The decimal digits of k >= 0.
Digits(k) ==
    IF k < 10 THEN Lit(DigitChars[k + 1], 1)
    ELSE Digits(k \div 10) \o Lit(DigitChars[(k % 10) + 1], 1)

\* String(x)
ToStr(x) ==
    CASE x.t = "string" -> x.v
      [] x.t = "number" ->
           IF x.v < 0 THEN Lit("-", 1) \o Digits(0 - x.v) ELSE Digits(x.v)
      [] x.t = "boolean" -> IF x.v THEN Lit("true", 4) ELSE Lit("false", 5)
      [] x.t = "undefined" -> Lit("undefined", 9)
      [] x.t = "null" -> Lit("null", 4)
      [] OTHER -> Lit("[object Object]", 15)

RECURSIVE DigitRun(_, _, _)
\* The digits s[i], s[i+1], ... read as a number: [n digits read, v value].
DigitRun(s, i, acc) ==
    IF i <= Len(s) /\ IsDigitTok(s[i])
    THEN DigitRun(s, i + 1, [n |-> acc.n + 1, v |-> acc.v * 10 + DigitValue(s[i])])
    ELSE acc

\* parseInt(x): skip white space, an optional sign, then the leading digits;
\* NaN when there is none.
ParseInt(x) ==
    LET s == TrimStart(ToStr(x))
        neg == s # << >> /\ Head(s) = Tok("-", 1)
        pos == s # << >> /\ Head(s) = Tok("+", 1)
        from == IF neg \/ pos THEN 2 ELSE 1
        run == DigitRun(s, from, [n |-> 0, v |-> 0])
    IN  IF run.n = 0 THEN [nan |-> TRUE, v |-> 0]
        ELSE [nan |-> FALSE, v |-> IF neg THEN 0 - run.v ELSE run.v]

Max(a, b) == IF a >= b THEN a ELSE b

----------------------------------------------------------------------------
(* The completion text: fences, the [...] match, JSON.parse and the repair *)

LBr == Tok("[", 1)
RBr == Tok("]", 1)
Comma == Tok(",", 1)
Newline == Tok("nl", 1)
Space == Tok("ws", 1)
\* Three backquotes, and three backquotes followed by "javascript".
Fence == Tok("fence", 3)
FenceJs == Tok("fence-javascript", 13)

\* The text of the JSON value e (not an array), n characters long, with the
\* defect d: "none"; "comma" (a trailing comma before its closing brace);
\* "quote" (single-quoted strings); "newline" (a raw line break inside a
\* string); "apos" (valid, with an apostrophe inside a string); "broken".
JsonTok(e, d, n) == [c |-> "json", n |-> n, e |-> e, d |-> d]

RECURSIVE StripFenceJs(_)
\* The first replace: a javascript fence and the white space after it.
StripFenceJs(s) ==
    IF s = << >> THEN << >>
    ELSE IF Head(s) = FenceJs THEN StripFenceJs(TrimStart(Tail(s)))
    ELSE << Head(s) >> \o StripFenceJs(Tail(s))

\* The second replace: every fence left.
StripFence(s) == SelectSeq(s, LAMBDA k : k # Fence)

\* content.replace(<javascript fence>\s*, '').replace(<fence>, '').trim()
CleanFences(s) == Trim(StripFence(StripFenceJs(s)))

\* content.match(/\[[\s\S]*\]/): from the first '[' to the last ']' after it;
\* << >> stands for null (a match is never empty).
JsonMatch(s) ==
    LET opens == { i \in 1..Len(s) : s[i] = LBr }
        closes == { i \in 1..Len(s) : s[i] = RBr }
    IN  IF opens = {} THEN << >>
        ELSE LET first == CHOOSE i \in opens : \A j \in opens : i <= j
                 after == { i \in closes : i > first }
             IN  IF after = {} THEN << >>
                 ELSE SubSeq(s, first,
                             CHOOSE i \in after : \A j \in after : j <= i)

RECURSIVE SkipSpace(_, _)
SkipSpace(s, i) ==
    IF i <= Len(s) /\ IsSpace(s[i]) THEN SkipSpace(s, i + 1) ELSE i

JsonFail == [ok |-> FALSE, val |-> Undefined, next |-> 0]

RECURSIVE ParseValue(_, _)
RECURSIVE ParseElements(_, _, _)

\* A JSON value starting at s[i]: [ok, val, next].
ParseValue(s, i) ==
    LET j == SkipSpace(s, i)
    IN  IF j > Len(s) THEN JsonFail
        ELSE IF s[j].c = "json"
        THEN IF s[j].d \in {"none", "apos"}
             THEN [ok |-> TRUE, val |-> s[j].e, next |-> j + 1]
             ELSE JsonFail
        ELSE IF s[j] = LBr
        THEN LET k == SkipSpace(s, j + 1)
             IN  IF k <= Len(s) /\ s[k] = RBr
                 THEN [ok |-> TRUE, val |-> Arr(<< >>), next |-> k + 1]
                 ELSE ParseElements(s, k, << >>)
        ELSE JsonFail

\* The elements of an array after its '[' (or after a ','), up to its ']'.
ParseElements(s, i, acc) ==
    LET v == ParseValue(s, i)
    IN  IF ~v.ok THEN JsonFail
        ELSE LET k == SkipSpace(s, v.next)
             IN  IF k > Len(s) THEN JsonFail
                 ELSE IF s[k] = Comma
                 THEN ParseElements(s, k + 1, Append(acc, v.val))
                 ELSE IF s[k] = RBr
                 THEN [ok |-> TRUE, val |-> Arr(Append(acc, v.val)),
                       next |-> k + 1]
                 ELSE JsonFail

\* JSON.parse(text): [ok, val]; ok is FALSE when it throws a SyntaxError.
JsonParse(s) ==
    LET v == ParseValue(s, 1)
    IN  IF v.ok /\ SkipSpace(s, v.next) > Len(s)
        THEN [ok |-> TRUE, val |-> v.val]
        ELSE [ok |-> FALSE, val |-> Undefined]

RECURSIVE RepairArrayCommas(_)
\* .replace(/,\s*]/g, ']')
RepairArrayCommas(s) ==
    IF s = << >> THEN << >>
    ELSE IF Head(s) = Comma
    THEN LET rest == TrimStart(Tail(s))
         IN  IF rest # << >> /\ Head(rest) = RBr
             THEN << RBr >> \o RepairArrayCommas(Tail(rest))
             ELSE << Comma >> \o RepairArrayCommas(Tail(s))
    ELSE << Head(s) >> \o RepairArrayCommas(Tail(s))

\* What the replacements do to the text of one value: /,\s*}/g removes its
\* trailing comma, /'/g turns its single quotes into double quotes (and an
\* apostrophe inside a string into a stray quote), /\n/g its raw line break
\* into a space.
RepairToken(k) ==
    IF k.c = "json"
    THEN [k EXCEPT !.d = CASE k.d \in {"comma", "quote", "newline"} -> "none"
                           [] k.d = "apos" -> "broken"
                           [] OTHER -> k.d]
    ELSE IF k = Newline THEN Space
    ELSE k

\* The repair pass.
Repair(s) ==
    LET t == RepairArrayCommas(s)
    IN  [i \in 1..Len(t) |-> RepairToken(t[i])]

----------------------------------------------------------------------------
(* analyzeCode *)

MaxIssueLength == 250
MaxFixLength == 400
MaxCodeLength == 100000

SevCritical == Str(Lit("Critical", 8))
SevHigh == Str(Lit("High", 4))
SevLow == Str(Lit("Low", 3))
SeverityEnum == { SevCritical, SevHigh, SevLow }

Finding(file, line, severity, issue, fix) ==
    [file |-> file, line |-> line, severity |-> severity, issue |-> issue,
     fix_suggestion |-> fix]

\* The finding returned when GROQ_API_KEY is not set.
ConfigurationFinding ==
    Finding(Lit("configuration", 13), 0, SevLow,
            Lit("AI API key not configured", 25),
            Lit("Set GROQ_API_KEY in Supabase secrets", 36))

\* The finding returned when the repaired text does not parse either.
ParserFinding ==
    Finding(Lit("parser", 6), 0, SevLow,
            Lit("Failed to parse AI response", 27),
            Lit("Check Edge Function logs for details", 36))

\* The finding the outer catch returns for an error with this message.
ErrorFinding(message) ==
    Finding(Lit("error", 5), 0, SevLow,
            Lit("Security analysis failed", 24),
            Lit("Error: ", 7) \o message \o Lit(". Check Edge Function logs.", 27))

\* new Error(...).message for a non-success answer of the completion API.
GroqErrorMessage(status, errorText) ==
    Lit("Groq API returned ", 18) \o Digits(status) \o Lit(": ", 2) \o errorText

MsgNullData == Lit("Cannot read properties of null (reading 'choices')", 50)
MsgNullChoice == Lit("Cannot read properties of null (reading 'message')", 50)
MsgNotString == Lit("content.slice is not a function", 31)
MsgNoReplace == Lit("content.replace is not a function", 33)
MsgNullElement == Lit("Cannot read properties of null (reading 'issue')", 48)

\* f.issue && f.severity
KeepElement(f) == Truthy(Field(f, "issue")) /\ Truthy(Field(f, "severity"))

\* String(f.file || 'unknown')
NormFile(f) ==
    ToStr(IF Truthy(Field(f, "file")) THEN Field(f, "file")
          ELSE Str(Lit("unknown", 7)))

\* Math.max(1, parseInt(f.line) || 1)
NormLine(f) ==
    LET p == ParseInt(Field(f, "line"))
    IN  Max(1, IF p.nan \/ p.v = 0 THEN 1 ELSE p.v)

\* ['Critical', 'High', 'Low'].includes(f.severity) ? f.severity : 'Low'
NormSeverity(f) ==
    IF Field(f, "severity") \in SeverityEnum THEN Field(f, "severity")
    ELSE SevLow

\* String(f.issue).slice(0, 250)
NormIssue(f) == Slice(ToStr(Field(f, "issue")), MaxIssueLength)

\* String(f.fix_suggestion || 'Review and address this vulnerability').slice(0, 400)
NormFix(f) ==
    Slice(ToStr(IF Truthy(Field(f, "fix_suggestion"))
                THEN Field(f, "fix_suggestion")
                ELSE Str(Lit("Review and address this vulnerability", 37))),
          MaxFixLength)

NormalizeElement(f) ==
    Finding(NormFile(f), NormLine(f), NormSeverity(f), NormIssue(f), NormFix(f))

\* findings.filter(...).map(...)
ValidatedFindings(elements) ==
    LET kept == SelectSeq(elements, KeepElement)
    IN  [i \in 1..Len(kept) |-> NormalizeElement(kept[i])]

\* What analyzeCode returns, and the way it took: path is the return
\* statement reached ("threw" when the promise rejects), attempts the number
\* of JSON.parse calls, repaired whether the repair pass ran, matched whether
\* the [...] match replaced the text, called whether the completion API was
\* called, firstParse how the first JSON.parse ended ("none", "ok",
\* "failed") and parsed the value of the local findings after the parse.
AnalysisResult(fs, path, attempts, repaired, matched, called) ==
    [findings |-> fs, path |-> path, attempts |-> attempts,
     repaired |-> repaired, matched |-> matched, called |-> called,
     firstParse |-> "none", parsed |-> Undefined]

\* A catch that returns no finding.
CaughtNoFinding(message, attempts, matched) ==
    AnalysisResult(<< >>, "catch", attempts, FALSE, matched, TRUE)

\* No catch: the error leaves analyzeCode.
CaughtRethrown(message, attempts, matched) ==
    AnalysisResult(<< >>, "threw", attempts, FALSE, matched, TRUE)

\* The outer catch.
Caught(message, attempts, matched) ==
    AnalysisResult(<< ErrorFinding(message) >>, "catch", attempts, FALSE,
                   matched, TRUE)

\* From the parsed value on: Array.isArray, filter and map.
FromParsed(val, attempts, repaired, matched) ==
    LET r == IF val.t # "array"
             THEN AnalysisResult(<< >>, "not_array", attempts, repaired,
                                 matched, TRUE)
             ELSE IF \E i \in 1..Len(val.v) : val.v[i] = Null
             THEN Caught(MsgNullElement, attempts, matched)
             ELSE AnalysisResult(ValidatedFindings(val.v), "normalized",
                                 attempts, repaired, matched, TRUE)
    IN  [r EXCEPT !.parsed = val, !.repaired = repaired]

\* The catch of the first JSON.parse: the repair pass and the second parse.
\* After a match, content is the match array, which has no replace method.
RepairAndRetry(text, matched) ==
    IF matched THEN Caught(MsgNoReplace, 1, TRUE)
    ELSE LET second == JsonParse(Repair(text))
         IN  IF second.ok THEN FromParsed(second.val, 2, TRUE, FALSE)
             ELSE AnalysisResult(<< ParserFinding >>, "parse_failed", 2,
                                 TRUE, FALSE, TRUE)

\* From the completion text on.
FromContent(raw) ==
    LET cleaned == CleanFences(raw)
        m == JsonMatch(cleaned)
        matched == m # << >>
        text == IF matched THEN m ELSE cleaned
        first == JsonParse(text)
    IN  IF first.ok
        THEN [FromParsed(first.val, 1, FALSE, matched)
                EXCEPT !.firstParse = "ok"]
        ELSE [RepairAndRetry(text, matched) EXCEPT !.firstParse = "failed"]

\* analyzeCode without the test of the key.
analyzeCodeKeyUnchecked(hasKey, c) ==
    IF c.kind \in {"network_error", "bad_body"}
    THEN Caught(c.errorText, 0, FALSE)
    ELSE IF c.kind = "http_error"
    THEN Caught(GroqErrorMessage(c.status, c.errorText), 0, FALSE)
    ELSE IF c.data = "null" THEN Caught(MsgNullData, 0, FALSE)
    ELSE IF c.data \in {"no_choices", "empty_choices"}
    THEN AnalysisResult(<< >>, "no_choices", 0, FALSE, FALSE, TRUE)
    ELSE IF c.data = "null_choice" THEN Caught(MsgNullChoice, 0, FALSE)
    ELSE LET raw == IF Truthy(c.content) THEN c.content
                    ELSE Str(<< LBr, RBr >>)
         IN  IF raw.t # "string" THEN Caught(MsgNotString, 0, FALSE)
             ELSE FromContent(raw.v)

\* analyzeCode, given whether the key is set and what the completion API
\* does: c.kind is "network_error" (fetch rejects with message c.errorText),
\* "http_error" (status c.status, body c.errorText), "bad_body" (a success
\* whose body is not JSON; response.json() rejects with c.errorText) or "ok";
\* then c.data is "null", "no_choices", "empty_choices", "null_choice" or
\* "message", and c.content is choices[0].message?.content.
analyzeCode(hasKey, c) ==
    IF ~hasKey
    THEN AnalysisResult(<< ConfigurationFinding >>, "no_key", 0, FALSE, FALSE,
                        FALSE)
    ELSE IF c.kind \in {"network_error", "bad_body"}
    THEN Caught(c.errorText, 0, FALSE)
    ELSE IF c.kind = "http_error"
    THEN Caught(GroqErrorMessage(c.status, c.errorText), 0, FALSE)
    ELSE IF c.data = "null" THEN Caught(MsgNullData, 0, FALSE)
    ELSE IF c.data \in {"no_choices", "empty_choices"}
    THEN AnalysisResult(<< >>, "no_choices", 0, FALSE, FALSE, TRUE)
    ELSE IF c.data = "null_choice" THEN Caught(MsgNullChoice, 0, FALSE)
    ELSE LET raw == IF Truthy(c.content) THEN c.content
                    ELSE Str(<< LBr, RBr >>)
         IN  IF raw.t # "string" THEN Caught(MsgNotString, 0, FALSE)
             ELSE FromContent(raw.v)

----------------------------------------------------------------------------
(* fetchGitHubRepo *)

MaxHighFiles == 12
MaxMediumFiles == 6
MaxRegularFiles == 2
MaxFileLength == 100000

\* Index of the first token of s at or after i that is a '/', or 0.
RECURSIVE NextSlash(_, _)
NextSlash(s, i) ==
    IF i > Len(s) THEN 0
    ELSE IF s[i] = Slash THEN i
    ELSE NextSlash(s, i + 1)

\* /github\.com\/([^\/]+)\/([^\/]+)/ at token i: [ok, owner, repo].
UrlPatternAt(s, i) ==
    LET a == NextSlash(s, i + 2)
        b == IF a = 0 THEN 0 ELSE NextSlash(s, a + 1)
        last == IF b = 0 THEN Len(s) ELSE b - 1
    IN  IF /\ s[i] = GitHubHost
           /\ i + 1 <= Len(s) /\ s[i + 1] = Slash
           /\ a > i + 2
           /\ last >= a + 1
        THEN [ok |-> TRUE, owner |-> SubSeq(s, i + 2, a - 1),
              repo |-> SubSeq(s, a + 1, last)]
        ELSE [ok |-> FALSE, owner |-> << >>, repo |-> << >>]

\* repoUrl.match(urlPattern): the leftmost match.
UrlMatch(s) ==
    LET at == { i \in 1..Len(s) : UrlPatternAt(s, i).ok }
    IN  IF at = {} THEN [ok |-> FALSE, owner |-> << >>, repo |-> << >>]
        ELSE UrlPatternAt(s, CHOOSE i \in at : \A j \in at : i <= j)

GitSuffix == << Dot, Tok("git", 3) >>

RECURSIVE RemoveFirstGit(_)
\* repo.replace('.git', ''): the first occurrence, wherever it is.
RemoveFirstGit(s) ==
    IF Len(s) < 2 THEN s
    ELSE IF SubSeq(s, 1, 2) = GitSuffix THEN SubSeq(s, 3, Len(s))
    ELSE << Head(s) >> \o RemoveFirstGit(Tail(s))

\* A path is a sequence of words, each a literal token; a directory word
\* ends with its '/'.  The tables list the words of the model's vocabulary
\* that hold a match of each pattern.
ExcludeWords ==
    { "node_modules/", ".git/", "dist/", "build/", "out/", "layout/",
      ".next/", "coverage/", ".vscode/", ".idea/", "__pycache__/",
      ".pytest_cache/", "venv/", "env/", "__tests__/", "test/", "Test/",
      "latest/" }
TestSuffixWords == { ".test", ".spec" }
ScriptExtensions == { ".js", ".jsx", ".ts", ".tsx" }
BundleWords == { ".min", ".bundle" }
LockFileWords == { "package-lock.json", "yarn.lock", "pnpm-lock.yaml" }
SupportedExtensions ==
    { ".js", ".ts", ".py", ".jsx", ".tsx", ".go", ".java", ".php", ".rb" }
ExtensionWords == SupportedExtensions \cup { ".md", ".png", ".json", ".map" }
\* The words that start with a dot.
DotWords == ExtensionWords \cup TestSuffixWords \cup BundleWords \cup { ".env" }
HighWords ==
    { "auth/", "auth", "login", "Login", "signin", "signup", "jwt", "token",
      "Token", "password", "session", "credential", "oauth" }
ApiDirWords == { "api/" }
KeyWords == { "key", "keys" }
MediumWords ==
    { "middleware", "route", "routes/", "api/", "api", "security", "config",
      ".env", "database", "db" }

\* excludePatterns.some(pattern => pattern.test(path))
IsExcluded(path) ==
    \/ \E i \in 1..Len(path) : path[i].c \in ExcludeWords
    \/ /\ Len(path) >= 2
       /\ path[Len(path) - 1].c \in TestSuffixWords
       /\ path[Len(path)].c \in ScriptExtensions
    \/ /\ path # << >>
       /\ path[Len(path)].c \in LockFileWords \cup { ".map" }
    \/ \E i \in 1..(Len(path) - 1) :
         path[i].c \in BundleWords /\ path[i + 1].c \in DotWords

\* supportedExtensions.some(ext => path.endsWith(ext))
HasSupportedExtension(path) ==
    path # << >> /\ path[Len(path)].c \in SupportedExtensions

\* highPriorityPatterns.some(pattern => pattern.test(path))
IsHighPriority(path) ==
    \/ \E i \in 1..Len(path) : path[i].c \in HighWords
    \/ \E i \in 1..Len(path) : \E j \in (i + 1)..Len(path) :
         path[i].c \in ApiDirWords /\ path[j].c \in KeyWords

\* mediumPriorityPatterns.some(pattern => pattern.test(path))
IsMediumPriority(path) == \E i \in 1..Len(path) : path[i].c \in MediumWords

\* The categorization with the Medium patterns tested first.
TierOfMediumFirst(item) ==
    IF item.type # "blob" THEN "none"
    ELSE IF IsExcluded(item.path) THEN "none"
    ELSE IF ~HasSupportedExtension(item.path) THEN "none"
    ELSE IF IsMediumPriority(item.path) THEN "medium"
    ELSE IF IsHighPriority(item.path) THEN "high"
    ELSE "regular"

\* The tier a tree item is pushed to, "none" when it is skipped.
TierOf(item) ==
    IF item.type # "blob" THEN "none"
    ELSE IF IsExcluded(item.path) THEN "none"
    ELSE IF ~HasSupportedExtension(item.path) THEN "none"
    ELSE IF IsHighPriority(item.path) THEN "high"
    ELSE IF IsMediumPriority(item.path) THEN "medium"
    ELSE "regular"

\* The items of one tier, in tree order.
TierFiles(items, tier) == SelectSeq(items, LAMBDA item : TierOf(item) = tier)

\* Array.prototype.slice(0, k)
Take(s, k) == SubSeq(s, 1, IF Len(s) < k THEN Len(s) ELSE k)

\* The selection with the Regular tier taken whole.
FilesToScanRegularUncut(items) ==
    Take(TierFiles(items, "high"), MaxHighFiles)
    \o Take(TierFiles(items, "medium"), MaxMediumFiles)
    \o TierFiles(items, "regular")

\* The selection with the Regular files spread first.
FilesToScanRegularFirst(items) ==
    Take(TierFiles(items, "regular"), MaxRegularFiles)
    \o Take(TierFiles(items, "high"), MaxHighFiles)
    \o Take(TierFiles(items, "medium"), MaxMediumFiles)

\* The array filesToScan.
FilesToScan(items) ==
    Take(TierFiles(items, "high"), MaxHighFiles)
    \o Take(TierFiles(items, "medium"), MaxMediumFiles)
    \o Take(TierFiles(items, "regular"), MaxRegularFiles)

\* The fetch loop with an oversize content cut to the limit and kept.
FilesAfterFetchTruncated(fs, item, fetched, size) ==
    IF fetched = "ok"
    THEN Append(fs, [file |-> item.path,
                     content |-> Slice(Lit("x", size), MaxFileLength)])
    ELSE fs

\* The files array after the fetch of item: fetched is "ok" (a success whose
\* decoded content has size characters), "http_error" or "threw" (fetch, json
\* or atob threw; the catch logs it).
FilesAfterFetch(fs, item, fetched, size) ==
    IF fetched = "ok" /\ size <= MaxFileLength
    THEN Append(fs, [file |-> item.path, content |-> Lit("x", size)])
    ELSE fs

RECURSIVE JoinFiles(_)
\* files.map(f => '--- FILE: ' + f.file + ' ---\n' + f.content).join('\n\n')
JoinFiles(fs) ==
    IF fs = << >> THEN << >>
    ELSE Lit("--- FILE: ", 10) \o Head(fs).file \o Lit(" ---", 4)
         \o << Newline >> \o Head(fs).content
         \o (IF Len(fs) > 1 THEN << Newline, Newline >> ELSE << >>)
         \o JoinFiles(Tail(fs))

----------------------------------------------------------------------------
(* serve *)

NoCounts == [critical |-> 0, high |-> 0, low |-> 0]

\* The reducer with its last else lost: low counts every finding.
CountFindingNoElse(acc, finding) ==
    IF finding.severity = SevCritical
    THEN [acc EXCEPT !.critical = @ + 1, !.low = @ + 1]
    ELSE IF finding.severity = SevHigh
    THEN [acc EXCEPT !.high = @ + 1, !.low = @ + 1]
    ELSE [acc EXCEPT !.low = @ + 1]

\* One step of the reducer of serve.
CountFinding(acc, finding) ==
    IF finding.severity = SevCritical THEN [acc EXCEPT !.critical = @ + 1]
    ELSE IF finding.severity = SevHigh THEN [acc EXCEPT !.high = @ + 1]
    ELSE [acc EXCEPT !.low = @ + 1]

RECURSIVE SeverityCounts(_)
\* findings.reduce(..., { critical: 0, high: 0, low: 0 })
SeverityCounts(fs) ==
    IF fs = << >> THEN NoCounts
    ELSE CountFinding(SeverityCounts(SubSeq(fs, 1, Len(fs) - 1)), fs[Len(fs)])

NoSummary == [total |-> 0, critical |-> 0, high |-> 0, low |-> 0]
NoResponse ==
    [status |-> 0, kind |-> "none", error |-> "", details |-> "",
     findings |-> << >>, summary |-> NoSummary, report_id |-> 0]
NoCompletion ==
    [kind |-> "none", status |-> 0, errorText |-> << >>, data |-> "none",
     content |-> Undefined]
NoAnalysis == AnalysisResult(<< >>, "none", 0, FALSE, FALSE, FALSE)

\* new Response('ok', { headers: corsHeaders })
PreflightResponse == [NoResponse EXCEPT !.status = 200, !.kind = "preflight"]

\* The error responses with the materialization failure answered as 400.
ErrorResponseFetch400(status, error, details) ==
    [NoResponse EXCEPT !.status = IF status = 422 THEN 400 ELSE status,
                       !.kind = "error", !.error = error, !.details = details]

\* The 400, 422 and 500 responses.
ErrorResponse(status, error, details) ==
    [NoResponse EXCEPT !.status = status, !.kind = "error", !.error = error,
                       !.details = details]

\* The 200 response of a scan.
ScanResponse(fs, counts, now) ==
    [NoResponse EXCEPT !.status = 200, !.kind = "scan", !.findings = fs,
       !.summary = [total |-> Len(fs), critical |-> counts.critical,
                    high |-> counts.high, low |-> counts.low],
       !.report_id = now]

\* payload.content.split('/').slice(-2).join('/')
LastTwoSegments(s) ==
    LET slashes == { i \in 1..Len(s) : s[i] = Slash }
        before == { i \in slashes :
                      Cardinality({ j \in slashes : j >= i }) = 2 }
    IN  IF before = {} THEN s
        ELSE SubSeq(s, (CHOOSE i \in before : TRUE) + 1, Len(s))

\* The row serve inserts into scan_history.
HistoryRow(payload, fs, counts) ==
    [repo_name |-> IF payload.type = TypeRepo
                   THEN LastTwoSegments(payload.content.v)
                   ELSE Lit("code-snippet", 12),
     repo_url |-> IF payload.type = TypeRepo THEN payload.content ELSE Null,
     total_issues |-> Len(fs), critical_count |-> counts.critical,
     high_count |-> counts.high, low_count |-> counts.low,
     findings |-> fs, status |-> "completed"]

----------------------------------------------------------------------------
(* The inputs: requests, what the hosting API, the completion API and the *)
(* store answer, and the clock                                            *)

MaxUrlTokens == 5
MaxSnippetTokens == 4
MaxTextTokens == 4
MaxElements == 2
MaxTreeItems == 2
MaxClock == 1
MaxExcess == 1
MaxSkipped == 1
MaxRequests == 2

\* All sequences over S of length 0..n.
SeqsUpTo(S, n) == UNION { [1..k -> S] : k \in 0..n }

Payload(type, content) == [t |-> "object", type |-> type, content |-> content]
MalformedBody == [t |-> "malformed"]
Request(method, body) == [method |-> method, body |-> body]

\* Texts built of the pieces of a repository URL.
UrlTokens == { GitHubHost, Slash, Dot, Tok("w", 3), Tok("x", 1) }
UrlContents == SeqsUpTo(UrlTokens, MaxUrlTokens) \ { << >> }

\* Texts whose lengths lie on both sides of the snippet limits.
SnippetTokens ==
    { Tok("w", 1), Tok("w", 9), Tok("w", 49990), Space, Tok("ws", 50001) }
SnippetContents == SeqsUpTo(SnippetTokens, MaxSnippetTokens) \ { << >> }

PayloadTypes ==
    { Undefined, Null, Num(1), Str(<< >>), Str(Lit("Repo", 4)), TypeRepo,
      TypeSnippet }
NonTextContents == { Undefined, Null, Num(5), Bool(TRUE), Str(<< >>) }

\* The payloads validatePayload is studied on.
ValidatePayloads ==
    { Payload(type, content) :
        type \in PayloadTypes,
        content \in NonTextContents
                    \cup { Str(s) : s \in UrlContents \cup SnippetContents } }

SnippetEval == Str(Lit("w", 19))
RepoUrl ==
    Str(<< Tok("x", 8), GitHubHost, Slash, Tok("w", 5), Slash, Tok("w", 4) >>)
RepoUrlGit ==
    Str(<< GitHubHost, Slash, Tok("w", 5), Slash, Tok("w", 4), Dot,
           Tok("git", 3) >>)

\* https://github.com/owner/user.github.io
RepoUrlPages ==
    Str(<< Tok("x", 8), GitHubHost, Slash, Tok("w", 5), Slash, Tok("w", 4), Dot,
           Tok("git", 3), Tok("w", 3), Dot, Tok("w", 2) >>)
\* https://github.com/owner/name?tab=readme
RepoUrlQuery ==
    Str(<< Tok("x", 8), GitHubHost, Slash, Tok("w", 5), Slash, Tok("w", 4),
           Tok("x", 1), Tok("w", 3), Tok("x", 1), Tok("w", 6) >>)
\* Longer repository references.
RepoPayloads ==
    { Payload(TypeRepo, url) : url \in { RepoUrl, RepoUrlGit, RepoUrlPages, RepoUrlQuery } }

\* The requests serve is studied on.
ServeRequests ==
    { Request("OPTIONS", MalformedBody) }
    \cup { Request("POST", body) :
             body \in { MalformedBody, Null, Num(5),
                        Payload(Undefined, SnippetEval),
                        Payload(TypeSnippet, Undefined),
                        Payload(TypeSnippet, Str(Lit("w", 9))),
                        Payload(TypeSnippet, Str(Lit("w", 50001))),
                        Payload(TypeSnippet, SnippetEval),
                        Payload(TypeRepo, Str(<< Tok("w", 5), Slash, Tok("w", 4) >>)),
                        Payload(TypeRepo, RepoUrl),
                        Payload(TypeRepo, RepoUrlGit) } }

\* An element of the array the model answers with.
Element(file, line, severity, issue, fix) ==
    [t |-> "object", file |-> file, line |-> line, severity |-> severity,
     issue |-> issue, fix_suggestion |-> fix]

ElemGood ==
    Element(Str(Lit("auth/login.js", 13)), Num(23), SevCritical,
            Str(Lit("x", 54)), Str(Lit("x", 80)))
ElemMedium ==
    Element(Undefined, Num(-5), Str(Lit("Medium", 6)), Str(Lit("x", 10000)),
            Str(Lit("x", 10000)))
ElemHigh ==
    Element(Str(Lit("a.ts", 4)), Str(<< Tok("1", 1), Tok("2", 1), Tok("w", 3) >>),
            SevHigh, Str(Lit("x", 251)), Undefined)
ElemLowerCase ==
    Element(Num(7), Num(0), Str(Lit("critical", 8)), Str(Lit("x", 250)),
            Str(Lit("x", 400)))
ElemNoIssue ==
    Element(Str(Lit("b.py", 4)), Undefined, Str(Lit("Medium", 6)), Undefined,
            Str(Lit("x", 401)))
ElemNoSeverity ==
    Element(Str(Lit("c.go", 4)), Null, Undefined, Str(Lit("x", 30)), Null)
ElemEmptySeverity ==
    Element(Str(Lit("d.rb", 4)), Str(Lit("w", 3)), Str(<< >>),
            Str(Lit("x", 30)), Str(<< >>))
ElemOddTypes ==
    Element(Bool(TRUE), Str(<< Space, Tok("-", 1), Tok("3", 1) >>), Num(3),
            Num(42), Bool(TRUE))
ElemLow ==
    Element(Str(Lit("e.js", 4)), Str(<< Tok("4", 1), Tok("0", 1) >>), SevLow,
            Str(Lit("x", 1)), Str(Lit("x", 1)))

Elements ==
    { ElemGood, ElemMedium, ElemHigh, ElemLowerCase, ElemNoIssue,
      ElemNoSeverity, ElemEmptySeverity, ElemOddTypes, ElemLow, Null, Num(5),
      Arr(<< >>) }

RECURSIVE ArrayBody(_)
\* The texts of the elements, separated by commas.
ArrayBody(es) ==
    IF es = << >> THEN << >>
    ELSE << JsonTok(Head(es), "none", 60) >>
         \o (IF Len(es) > 1 THEN << Comma >> ELSE << >>)
         \o ArrayBody(Tail(es))

\* JSON.stringify of an array of the elements es.
ArrayText(es) == << LBr >> \o ArrayBody(es) \o << RBr >>

ArrayTexts(pool) == { ArrayText(es) : es \in SeqsUpTo(pool, MaxElements) }

\* Texts built of brackets, commas, line breaks, prose, fences and values.
TextTokens ==
    { LBr, RBr, Comma, Newline, Tok("w", 5), Fence, FenceJs,
      JsonTok(ElemGood, "none", 60), JsonTok(ElemMedium, "quote", 60) }
StructuredTexts == SeqsUpTo(TextTokens, MaxTextTokens)

\* Texts whose values carry the other defects.
DefectTexts ==
    { << JsonTok(ElemGood, d, 60) >> : d \in { "comma", "newline", "apos", "broken" } }
    \cup { << LBr, JsonTok(ElemGood, d, 60), RBr >> :
             d \in { "comma", "newline", "apos", "broken" } }
    \cup { << JsonTok(Null, "none", 4) >>, << JsonTok(Num(5), "none", 1) >>,
           << Tok("w", 4), LBr, JsonTok(ElemGood, "none", 60), RBr, Tok("w", 4) >>,
           << JsonTok(ElemGood, "apos", 60), Comma >>,
           << LBr, JsonTok(ElemGood, "none", 60), RBr, Newline, Tok("w", 4),
              LBr, Tok("w", 1), RBr >> }

ErrorTexts == { << >>, Lit("x", 343), Lit("x", 344), Lit("x", 10000) }
HttpStatuses == { 401, 429, 500 }

Completion(kind, status, errorText, data, content) ==
    [kind |-> kind, status |-> status, errorText |-> errorText, data |-> data,
     content |-> content]

FailedCompletions ==
    { Completion("network_error", 0, Lit("error sending request", 21),
                 "none", Undefined),
      Completion("bad_body", 200, Lit("Unexpected token < in JSON at position 0", 40),
                 "none", Undefined) }
    \cup { Completion("http_error", st, e, "none", Undefined) :
             st \in HttpStatuses, e \in ErrorTexts }
    \cup { Completion("ok", 200, << >>, d, Undefined) :
             d \in { "null", "no_choices", "empty_choices", "null_choice" } }
    \cup { Completion("ok", 200, << >>, "message", c) :
             c \in { Undefined, Null, Str(<< >>), Num(7) } }

TextCompletions(texts) ==
    { Completion("ok", 200, << >>, "message", Str(s)) : s \in texts \ { << >> } }

\* What the completion API may do, where analyzeCode is studied ...
AnalyzeCompletions ==
    FailedCompletions
    \cup TextCompletions(StructuredTexts \cup DefectTexts \cup ArrayTexts(Elements))

\* ... and where the whole of serve is.
ServeCompletions ==
    { c \in FailedCompletions :
        c.kind = "http_error" => (c.status = 401 /\ StrLen(c.errorText) \in { 0, 344 }) }
    \cup TextCompletions({ ArrayText(<< ElemGood >>),
                           ArrayText(<< ElemGood, ElemMedium >>),
                           ArrayText(<< ElemHigh, Null >>),
                           ArrayText(<< ElemNoIssue >>),
                           << LBr, RBr >>,
                           Lit("w", 40),
                           << LBr, JsonTok(ElemGood, "quote", 60), RBr >> })

Word(c, n) == Tok(c, n)
TreeItem(type, path) == [type |-> type, path |-> path]

TreeItems ==
    { TreeItem("blob", << Word("src/", 4), Word("auth/", 5), Word("login", 5), Word(".js", 3) >>),
      TreeItem("blob", << Word("src/", 4), Word("api/", 4), Word("routes/", 7), Word("index", 5), Word(".ts", 3) >>),
      TreeItem("blob", << Word("src/", 4), Word("index", 5), Word(".js", 3) >>),
      TreeItem("blob", << Word("node_modules/", 13), Word("index", 5), Word(".js", 3) >>),
      TreeItem("blob", << Word("README", 6), Word(".md", 3) >>),
      TreeItem("tree", << Word("src/", 4) >>) }

Trees == SeqsUpTo(TreeItems, MaxTreeItems)

\* Trees with more files of a tier than the selection takes.  The k-th file
\* of a tier:
HighItem(k) ==
    TreeItem("blob", << Word("auth/", 5), Word(ToString(k), 2), Word(".ts", 3) >>)
MediumItem(k) ==
    TreeItem("blob", << Word("routes/", 7), Word(ToString(k), 2), Word(".py", 3) >>)
RegularItem(k) ==
    TreeItem("blob", << Word("src/", 4), Word(ToString(k), 2), Word(".go", 3) >>)

\* Items the selection has to leave out.
SkippedItems ==
    << TreeItem("tree", << Word("auth/", 5) >>),
       TreeItem("blob", << Word("node_modules/", 13), Word("auth", 4), Word(".js", 3) >>),
       TreeItem("blob", << Word("login", 5), Word(".test", 5), Word(".ts", 3) >>),
       TreeItem("blob", << Word("auth", 4), Word(".min", 4), Word(".js", 3) >>),
       TreeItem("blob", << Word("README", 6), Word(".md", 3) >>),
       TreeItem("commit", << Word("token", 5), Word(".js", 3) >>) >>

\* h High, m Medium and r Regular files, tier after tier with the Regular
\* ones first.
GroupedTree(h, m, r) ==
    [k \in 1..r |-> RegularItem(k)] \o [k \in 1..m |-> MediumItem(k)]
    \o SkippedItems \o [k \in 1..h |-> HighItem(k)]

RECURSIVE MixedFrom(_, _, _, _)
\* The same files, one of each tier in turn, from the k-th on.
MixedFrom(k, h, m, r) ==
    IF k > h /\ k > m /\ k > r THEN << >>
    ELSE (IF k <= r THEN << RegularItem(k) >> ELSE << >>)
         \o (IF k <= Len(SkippedItems) THEN << SkippedItems[k] >> ELSE << >>)
         \o (IF k <= m THEN << MediumItem(k) >> ELSE << >>)
         \o (IF k <= h THEN << HighItem(k) >> ELSE << >>)
         \o MixedFrom(k + 1, h, m, r)

\* A tree whose paths match the patterns of several tiers, one of them six
\* levels deep.
PatternTree ==
    << TreeItem("blob", << Word("src/", 4), Word("app", 3), Word(".js", 3) >>),
       TreeItem("blob", << Word("src/", 4), Word("main", 4), Word(".go", 3) >>),
       TreeItem("blob", << Word("api/", 4), Word("v1/", 3), Word("keys", 4), Word(".ts", 3) >>),
       TreeItem("blob", << Word("config", 6), Word(".py", 3) >>),
       TreeItem("blob", << Word("src/", 4), Word("api/", 4), Word("routes/", 7),
                           Word("auth/", 5), Word("v1/", 3), Word("login", 5), Word(".ts", 3) >>),
       TreeItem("blob", << Word("routes/", 7), Word("auth", 4), Word(".js", 3) >>),
       TreeItem("blob", << Word("src/", 4), Word("util", 4), Word(".rb", 3) >>) >>

LargeTrees ==
    { GroupedTree(MaxHighFiles + MaxExcess, MaxMediumFiles + MaxExcess,
                  MaxRegularFiles + MaxExcess),
      MixedFrom(1, MaxHighFiles + MaxExcess, MaxExcess, MaxExcess),
      GroupedTree(0, 0, MaxRegularFiles + MaxExcess),
      GroupedTree(0, 0, 0),
      MixedFrom(1, 1, 1, 1),
      PatternTree }

\* The sizes of the contents the fetches bring: at the limit and over it.
FileSizes == { MaxFileLength, MaxFileLength + 1 }
\* A content several of which fit into the text sent to the model.
ShortFileLength == MaxFileLength \div 4
\* The sizes the content of a blob may have: the files of PatternTree may
\* also be short.
FileSizesOf(item) ==
    IF \E k \in 1..Len(PatternTree) : PatternTree[k] = item
    THEN FileSizes \cup { ShortFileLength }
    ELSE FileSizes
\* What a call may end as; "never" is a promise that never settles.
FetchOutcomes == { "ok", "http_error", "threw", "never" }
InsertOutcomes == { "ok", "error", "threw", "never" }

----------------------------------------------------------------------------
(* The serve handler, one action per stretch between two awaits *)

\* An external call and how it ended: size is the number of characters of
\* code it carried (for the fetch of a file, of the content it brought).
Call(api, what, size, answer) ==
    [api |-> api, what |-> what, size |-> size, answer |-> answer]

MsgInternal == "Internal server error"
MsgFetchFailed == "Failed to fetch repository"
MsgNoFiles == "No supported code files found in repository"
MsgMetaFailed == "GitHub API error: Not Found"
MsgTreeFailed == "Failed to fetch repository tree: Not Found"
MsgNetwork == "error sending request"

Respond(r) == response' = r /\ pc' = "done"

\* The end of fetchGitHubRepo without the test of files.length.
FinishFetchUnchecked(fs) ==
    codeToAnalyze' = JoinFiles(fs) /\ pc' = "analyze" /\ UNCHANGED response

\* The end of fetchGitHubRepo and, when it returns, the assembly of the text.
FinishFetch(fs) ==
    IF fs = << >>
    THEN Respond(ErrorResponse(422, MsgFetchFailed, MsgNoFiles))
         /\ UNCHANGED codeToAnalyze
    ELSE codeToAnalyze' = JoinFiles(fs) /\ pc' = "analyze"
         /\ UNCHANGED response

\* From the request to the first await after validation.
ServeStart ==
    /\ pc = "start"
    /\ UNCHANGED << served, req, groqKey, tree, filesToScan, fileIdx, files,
                    completion, analysis, findings, severityCounts, history,
                    calls >>
    /\ IF req.method = "OPTIONS"
       THEN Respond(PreflightResponse)
            /\ UNCHANGED << validationError, repo, codeToAnalyze >>
       ELSE IF req.body = MalformedBody
       THEN Respond(ErrorResponse(500, MsgInternal, "Unexpected token in JSON"))
            /\ UNCHANGED << validationError, repo, codeToAnalyze >>
       ELSE IF req.body = Null
       THEN Respond(ErrorResponse(500, MsgInternal,
                                  "Cannot read properties of null (reading 'type')"))
            /\ UNCHANGED << validationError, repo, codeToAnalyze >>
       ELSE LET err == validatePayload(req.body)
            IN  /\ validationError' = err
                /\ IF err # NoError
                   THEN Respond(ErrorResponse(400, err, ""))
                        /\ UNCHANGED << repo, codeToAnalyze >>
                   ELSE IF req.body.type = TypeRepo
                   THEN LET m == UrlMatch(req.body.content.v)
                        IN  IF ~m.ok
                            THEN Respond(ErrorResponse(422, MsgFetchFailed,
                                           "Invalid GitHub repository URL"))
                                 /\ UNCHANGED << repo, codeToAnalyze >>
                            ELSE /\ repo' = [owner |-> m.owner,
                                             name |-> RemoveFirstGit(m.repo)]
                                 /\ pc' = "repo_meta"
                                 /\ UNCHANGED << codeToAnalyze, response >>
                   ELSE /\ codeToAnalyze' = req.body.content.v
                        /\ pc' = "analyze"
                        /\ UNCHANGED << repo, response >>

\* The answer to the metadata lookup.
RepoMeta ==
    /\ pc = "repo_meta"
    /\ UNCHANGED << served, req, groqKey, validationError, repo, tree, filesToScan,
                    fileIdx, files, codeToAnalyze, completion, analysis,
                    findings, severityCounts, history >>
    /\ \E outcome \in FetchOutcomes :
         /\ calls' = Append(calls, Call("github", "metadata", 0, outcome))
         /\ CASE outcome = "ok" -> pc' = "repo_tree" /\ UNCHANGED response
              [] outcome = "http_error" ->
                   Respond(ErrorResponse(422, MsgFetchFailed, MsgMetaFailed))
              [] outcome = "threw" ->
                   Respond(ErrorResponse(422, MsgFetchFailed, MsgNetwork))
              [] outcome = "never" -> pc' = "hung" /\ UNCHANGED response

\* The answer to the tree listing, a tree of pool when it succeeds; the
\* selection of the files follows.
ListTree(pool) ==
    /\ pc = "repo_tree"
    /\ UNCHANGED << served, req, groqKey, validationError, repo, fileIdx, files,
                    completion, analysis, findings, severityCounts, history >>
    /\ \E outcome \in FetchOutcomes :
         /\ calls' = Append(calls, Call("github", "tree", 0, outcome))
         /\ CASE outcome = "ok" ->
                   \E items \in pool :
                       /\ tree' = items
                       /\ filesToScan' = FilesToScan(items)
                       /\ IF FilesToScan(items) = << >>
                          THEN FinishFetch(<< >>)
                          ELSE pc' = "repo_file"
                               /\ UNCHANGED << codeToAnalyze, response >>
              [] outcome = "http_error" ->
                   /\ Respond(ErrorResponse(422, MsgFetchFailed, MsgTreeFailed))
                   /\ UNCHANGED << tree, filesToScan, codeToAnalyze >>
              [] outcome = "threw" ->
                   /\ Respond(ErrorResponse(422, MsgFetchFailed, MsgNetwork))
                   /\ UNCHANGED << tree, filesToScan, codeToAnalyze >>
              [] outcome = "never" ->
                   /\ pc' = "hung"
                   /\ UNCHANGED << tree, filesToScan, codeToAnalyze, response >>

RepoTree == ListTree(Trees)
RepoTreeLarge == ListTree(LargeTrees)

\* The fetch loop with its try around the loop: a thrown error ends it.
FetchFileTryAroundLoop(maxSkipped) ==
    /\ pc = "repo_file"
    /\ UNCHANGED << served, req, groqKey, validationError, repo, tree, filesToScan,
                    completion, analysis, findings, severityCounts, history >>
    /\ \E fetched \in FetchOutcomes :
       \E size \in IF fetched = "ok" THEN FileSizesOf(filesToScan[fileIdx]) ELSE { 0 } :
         LET fs == FilesAfterFetch(files, filesToScan[fileIdx], fetched, size)
         IN  /\ fs = files => fileIdx - 1 - Len(files) < maxSkipped
             /\ calls' = Append(calls, Call("github", "file", size, fetched))
             /\ IF fetched = "never"
                THEN /\ pc' = "hung"
                     /\ UNCHANGED << files, fileIdx, codeToAnalyze, response >>
                ELSE /\ files' = fs
                     /\ fileIdx' = fileIdx + 1
                     /\ IF fileIdx = Len(filesToScan) \/ fetched = "threw"
                        THEN FinishFetch(fs)
                        ELSE UNCHANGED << pc, codeToAnalyze, response >>

\* The fetch loop issuing the next fetch without awaiting the one before.
FetchFileUnawaited(maxSkipped) ==
    /\ pc = "repo_file"
    /\ UNCHANGED << served, req, groqKey, validationError, repo, tree, filesToScan,
                    completion, analysis, findings, severityCounts, history >>
    /\ \E fetched \in FetchOutcomes :
       \E size \in IF fetched = "ok" THEN FileSizesOf(filesToScan[fileIdx]) ELSE { 0 } :
         LET fs == FilesAfterFetch(files, filesToScan[fileIdx], fetched, size)
         IN  /\ fs = files => fileIdx - 1 - Len(files) < maxSkipped
             /\ calls' = Append(calls, Call("github", "file", size, fetched))
             /\ files' = fs
             /\ fileIdx' = fileIdx + 1
             /\ IF fileIdx = Len(filesToScan)
                THEN FinishFetch(fs)
                ELSE UNCHANGED << pc, codeToAnalyze, response >>

\* The answer to the fetch of one selected file; at most maxSkipped files
\* are left out.
FetchFile(maxSkipped) ==
    /\ pc = "repo_file"
    /\ UNCHANGED << served, req, groqKey, validationError, repo, tree, filesToScan,
                    completion, analysis, findings, severityCounts, history >>
    /\ \E fetched \in FetchOutcomes :
       \E size \in IF fetched = "ok" THEN FileSizesOf(filesToScan[fileIdx]) ELSE { 0 } :
         LET fs == FilesAfterFetch(files, filesToScan[fileIdx], fetched, size)
         IN  /\ fs = files => fileIdx - 1 - Len(files) < maxSkipped
             /\ calls' = Append(calls, Call("github", "file", size, fetched))
             /\ IF fetched = "never"
                THEN /\ pc' = "hung"
                     /\ UNCHANGED << files, fileIdx, codeToAnalyze, response >>
                ELSE /\ files' = fs
                     /\ fileIdx' = fileIdx + 1
                     /\ IF fileIdx = Len(filesToScan)
                        THEN FinishFetch(fs)
                        ELSE UNCHANGED << pc, codeToAnalyze, response >>

RepoFile == FetchFile(Len(filesToScan))
RepoFileLarge == FetchFile(MaxSkipped)

\* The completion API never answering.
NeverCompletion == Completion("never", 0, << >>, "none", Undefined)

\* analyzeCode calling the completion API again when the call failed.
AnalyzeRetrying(pool) ==
    /\ pc = "analyze"
    /\ UNCHANGED << served, req, groqKey, validationError, repo, tree, filesToScan,
                    fileIdx, files, codeToAnalyze, history >>
    /\ \E c \in IF groqKey THEN pool \cup { NeverCompletion } ELSE { NoCompletion } :
         LET r == analyzeCode(groqKey, c)
             sent == StrLen(Slice(codeToAnalyze, MaxCodeLength))
         IN  IF c = NeverCompletion
             THEN /\ completion' = c
                  /\ calls' = Append(calls, Call("groq", "completion", sent, c.kind))
                  /\ pc' = "hung"
                  /\ UNCHANGED << analysis, findings, severityCounts, response >>
             ELSE /\ completion' = c
                  /\ analysis' = [r EXCEPT !.findings = << >>]
                  /\ calls' = IF ~r.called THEN calls
                              ELSE IF c.kind = "ok"
                              THEN Append(calls, Call("groq", "completion", sent, c.kind))
                              ELSE calls \o << Call("groq", "completion", sent, c.kind),
                                               Call("groq", "completion", sent, c.kind) >>
                  /\ IF r.path = "threw"
                     THEN /\ Respond(ErrorResponse(500, MsgInternal, "analysis failed"))
                          /\ UNCHANGED << findings, severityCounts >>
                     ELSE /\ findings' = r.findings
                          /\ severityCounts' = SeverityCounts(r.findings)
                          /\ pc' = "record"
                          /\ UNCHANGED response


\* analyzeCode and the reduce that follows it, the completion API answering
\* with one of pool or never; a rejection of analyzeCode would reach the
\* catch of serve.
Analyze(pool) ==
    /\ pc = "analyze"
    /\ UNCHANGED << served, req, groqKey, validationError, repo, tree, filesToScan,
                    fileIdx, files, codeToAnalyze, history >>
    /\ \E c \in IF groqKey THEN pool \cup { NeverCompletion } ELSE { NoCompletion } :
         LET r == analyzeCode(groqKey, c)
             sent == StrLen(Slice(codeToAnalyze, MaxCodeLength))
         IN  IF c = NeverCompletion
             THEN /\ completion' = c
                  /\ calls' = Append(calls, Call("groq", "completion", sent, c.kind))
                  /\ pc' = "hung"
                  /\ UNCHANGED << analysis, findings, severityCounts, response >>
             ELSE /\ completion' = c
                  /\ analysis' = [r EXCEPT !.findings = << >>]
                  /\ calls' = IF r.called
                              THEN Append(calls, Call("groq", "completion", sent, c.kind))
                              ELSE calls
                  /\ IF r.path = "threw"
                     THEN /\ Respond(ErrorResponse(500, MsgInternal, "analysis failed"))
                          /\ UNCHANGED << findings, severityCounts >>
                     ELSE /\ findings' = r.findings
                          /\ severityCounts' = SeverityCounts(r.findings)
                          /\ pc' = "record"
                          /\ UNCHANGED response

AnalyzeServe == Analyze(ServeCompletions)
AnalyzeRich == Analyze(AnalyzeCompletions)

\* The response with a thrown insert reaching the catch of serve.
AfterInsertThrowing(outcome, fs, counts, now) ==
    IF outcome = "threw"
    THEN ErrorResponse(500, MsgInternal, "insert failed")
    ELSE ScanResponse(fs, counts, now)

\* What serve returns once the insert has settled as outcome: an error
\* result and a thrown exception are logged, nothing else.
AfterInsert(outcome, fs, counts, now) == ScanResponse(fs, counts, now)

\* Date.now() does not run backwards: the clock is at least what it was when
\* the last scan was answered.
LastClock ==
    LET ids == { served[i].report_id : i \in 1..Len(served) }
    IN  IF ids = {} THEN 0 ELSE CHOOSE m \in ids : \A k \in ids : k <= m

\* The table with an upsert in place of the insert: the last row is replaced.
StoredReplacing(outcome, rows, row) ==
    IF outcome = "ok"
    THEN IF rows = << >> THEN << row >> ELSE [rows EXCEPT ![Len(rows)] = row]
    ELSE rows

\* The table scan_history after supabase.from('scan_history').insert(row)
\* settled as outcome.
Stored(outcome, rows, row) ==
    IF outcome = "ok" THEN Append(rows, row) ELSE rows

\* The insert into scan_history, awaited, and then the 200 response.
Record ==
    /\ pc = "record"
    /\ UNCHANGED << served, req, groqKey, validationError, repo, tree, filesToScan,
                    fileIdx, files, codeToAnalyze, completion, analysis,
                    findings, severityCounts >>
    /\ \E outcome \in InsertOutcomes :
         /\ calls' = Append(calls, Call("supabase", "insert", 0, outcome))
         /\ history' = Stored(outcome, history,
                              HistoryRow(req.body, findings, severityCounts))
         /\ IF outcome = "never"
            THEN pc' = "hung" /\ UNCHANGED response
            ELSE \E now \in LastClock..MaxClock :
                   Respond(AfterInsert(outcome, findings, severityCounts, now))

InitCommon ==
    /\ groqKey \in BOOLEAN
    /\ repo = [owner |-> << >>, name |-> << >>]
    /\ tree = << >>
    /\ filesToScan = << >>
    /\ fileIdx = 1
    /\ files = << >>
    /\ completion = NoCompletion
    /\ analysis = NoAnalysis
    /\ findings = << >>
    /\ severityCounts = NoCounts
    /\ history = << >>
    /\ calls = << >>
    /\ response = NoResponse
    /\ served = << >>

\* The whole handler.
Init ==
    /\ pc = "start"
    /\ req \in ServeRequests
    /\ validationError = NoError
    /\ codeToAnalyze = << >>
    /\ InitCommon

Next == ServeStart \/ RepoMeta \/ RepoTree \/ RepoFile \/ AnalyzeServe \/ Record

Spec == Init /\ [][Next]_vars

\* The requests, trees and completions of a run of several requests.
SerialRequests ==
    { Request("OPTIONS", MalformedBody) }
    \cup { Request("POST", body) :
             body \in { MalformedBody,
                        Payload(TypeSnippet, Str(Lit("w", 9))),
                        Payload(TypeSnippet, SnippetEval),
                        Payload(TypeRepo, RepoUrl) } }
SerialTrees ==
    { << >>,
      << TreeItem("blob", << Word("src/", 4), Word("auth/", 5), Word("login", 5), Word(".js", 3) >>) >> }
SerialCompletions ==
    { Completion("http_error", 401, << >>, "none", Undefined) }
    \cup TextCompletions({ ArrayText(<< ElemGood >>) })

RepoTreeSerial == ListTree(SerialTrees)
AnalyzeSerial == Analyze(SerialCompletions)

\* The handler is invoked for the next request; the environment and the
\* store stay, the response of a request that was answered is kept.
NextRequest ==
    /\ pc \in { "done", "hung" }
    /\ Len(served) < MaxRequests - 1
    /\ served' = IF pc = "done" THEN Append(served, response) ELSE served
    /\ req' \in SerialRequests
    /\ pc' = "start"
    /\ validationError' = NoError
    /\ codeToAnalyze' = << >>
    /\ repo' = [owner |-> << >>, name |-> << >>]
    /\ tree' = << >>
    /\ filesToScan' = << >>
    /\ fileIdx' = 1
    /\ files' = << >>
    /\ completion' = NoCompletion
    /\ analysis' = NoAnalysis
    /\ findings' = << >>
    /\ severityCounts' = NoCounts
    /\ calls' = << >>
    /\ response' = NoResponse
    /\ UNCHANGED << groqKey, history >>

\* Several requests, one after the other.
InitSerial ==
    /\ pc = "start"
    /\ req \in SerialRequests
    /\ validationError = NoError
    /\ codeToAnalyze = << >>
    /\ InitCommon

NextSerial ==
    \/ ServeStart \/ RepoMeta \/ RepoTreeSerial \/ RepoFile \/ AnalyzeSerial
    \/ Record \/ NextRequest

SpecSerial == InitSerial /\ [][NextSerial]_vars

\* The materialization of a repository with a large tree.
InitSelect ==
    /\ pc = "start"
    /\ req = Request("POST", Payload(TypeRepo, RepoUrl))
    /\ validationError = NoError
    /\ codeToAnalyze = << >>
    /\ InitCommon

NextSelect == ServeStart \/ RepoMeta \/ RepoTreeLarge \/ RepoFileLarge

SpecSelect == InitSelect /\ [][NextSelect]_vars

\* validatePayload on many payloads.
InitValidate ==
    /\ pc = "start"
    /\ req \in { Request("POST", body) : body \in ValidatePayloads \cup RepoPayloads }
    /\ validationError = NoError
    /\ codeToAnalyze = << >>
    /\ InitCommon

SpecValidate == InitValidate /\ [][ServeStart]_vars

\* analyzeCode on many answers of the completion API, from a validated
\* snippet on.
InitAnalyze ==
    /\ pc = "analyze"
    /\ req = Request("POST", Payload(TypeSnippet, SnippetEval))
    /\ validationError = NoError
    /\ codeToAnalyze = SnippetEval.v
    /\ InitCommon

NextAnalyze == AnalyzeRich \/ Record

SpecAnalyze == InitAnalyze /\ [][NextAnalyze]_vars

----------------------------------------------------------------------------
(* Properties *)

PayloadType == Field(req.body, "type")
PayloadContent == Field(req.body, "content")
IsText(x) == x.t = "string" /\ x.v # << >>

\* C1: every finding analyzeCode returns, normalized or synthetic, has
\* line >= 1.
C1_EveryLineAtLeastOne ==
    \A i \in 1..Len(findings) : findings[i].line >= 1

\* C2: every finding analyzeCode returns has an issue of at most 250
\* characters and a fix_suggestion of at most 400, the synthetic finding that
\* embeds the error text of the completion API included.
C2_TextsBounded ==
    \A i \in 1..Len(findings) :
        /\ StrLen(findings[i].issue) <= MaxIssueLength
        /\ StrLen(findings[i].fix_suggestion) <= MaxFixLength

\* An element whose severity is a non-empty value outside the enum.
HasOtherSeverity(e) ==
    /\ e.t = "object"
    /\ Truthy(Field(e, "severity"))
    /\ Field(e, "severity") \notin SeverityEnum

\* fs holds the finding made of element e, with severity Low.
ReportedLow(e, fs) ==
    \E j \in 1..Len(fs) :
        /\ fs[j].severity = SevLow
        /\ fs[j].file = NormFile(e)
        /\ fs[j].issue = NormIssue(e)

AllSeveritiesInEnum(fs) == \A j \in 1..Len(fs) : fs[j].severity \in SeverityEnum

\* C3: every finding of a 200 response has its severity in
\* {Critical, High, Low}, and every element of the parsed array whose
\* severity is another non-empty value is kept and reported as Low.
C3_OtherSeverityAlwaysKept ==
    response.kind = "scan" =>
        /\ AllSeveritiesInEnum(response.findings)
        /\ analysis.parsed.t = "array" =>
             \A i \in 1..Len(analysis.parsed.v) :
                 HasOtherSeverity(analysis.parsed.v[i]) =>
                     ReportedLow(analysis.parsed.v[i], response.findings)

CountOf(fs, severity) ==
    Cardinality({ i \in 1..Len(fs) : fs[i].severity = severity })

\* C4: in every 200 response of a scan, summary.total is the number of
\* findings, each of critical, high and low is the number of findings of
\* that severity, and the three add up to total.
C4_SummaryIsAggregate ==
    response.kind = "scan" =>
        /\ response.summary.total = Len(response.findings)
        /\ response.summary.critical = CountOf(response.findings, SevCritical)
        /\ response.summary.high = CountOf(response.findings, SevHigh)
        /\ response.summary.low = CountOf(response.findings, SevLow)
        /\ response.summary.critical + response.summary.high
             + response.summary.low = response.summary.total

C4_Witness ==
    /\ response.kind = "scan"
    /\ response.summary.critical >= 1
    /\ response.summary.low >= 1
    /\ response.summary.total = 2

\* C5: when the completion API answers a validated request with a
\* non-success status, the response is 200 with exactly one finding, of
\* severity Low, and the summary {total 1, critical 0, high 0, low 1};
\* never 500.
C5_HttpErrorGivesOneLowFinding ==
    completion.kind = "http_error" =>
        /\ groqKey /\ validationError = NoError
        /\ response.status # 500
        /\ pc = "done" =>
             /\ response.status = 200
             /\ Len(response.findings) = 1
             /\ response.findings[1].severity = SevLow
             /\ response.summary
                  = [total |-> 1, critical |-> 0, high |-> 0, low |-> 1]

C5_Witness ==
    /\ completion.kind = "http_error"
    /\ pc = "done"
    /\ response.status = 200
    /\ response.findings[1].file = Lit("error", 5)

\* C6: whenever the first JSON.parse of the completion text fails, the
\* repair pass runs and the parse is retried exactly once; if the retry
\* fails too, analyzeCode returns exactly the 'Failed to parse AI response'
\* finding.  This holds also when a [...] span was extracted.
C6_RepairedAndRetriedOnce ==
    analysis.firstParse = "failed" =>
        /\ analysis.repaired
        /\ analysis.attempts = 2
        /\ analysis.parsed = Undefined => findings = << ParserFinding >>

\* C7: the response is not 200 only when validation rejects the request
\* (400), the repository cannot be materialized (422) or the body cannot be
\* read (500); once the text to analyze is there, the response is 200
\* whatever the completion API does.
C7_Non200OnlyBeforeAnalysis ==
    pc = "done" =>
        /\ response.status \in { 200, 400, 422, 500 }
        /\ response.status = 400 => validationError # NoError
        /\ response.status = 422 =>
             /\ validationError = NoError
             /\ PayloadType = TypeRepo
             /\ codeToAnalyze = << >>
             /\ analysis.path = "none"
        /\ response.status = 500 => req.body \in { MalformedBody, Null }
        /\ codeToAnalyze # << >> => response.status = 200

C7_Witness ==
    /\ pc = "done"
    /\ response.status = 200
    /\ analysis.parsed.t = "array"
    /\ \E i \in 1..Len(analysis.parsed.v) : analysis.parsed.v[i] = Null

\* C8: a request whose type is not exactly "repo" or "snippet" gets 400 with
\* the invalid-type message whatever its content is; a request with a valid
\* type and a missing, empty or non-string content gets 400 with the
\* missing-content message.
C8_TypeBeforeContent ==
    (pc # "start" /\ req.method = "POST" /\ req.body.t \notin { "malformed", "null" }) =>
        /\ PayloadType \notin { TypeRepo, TypeSnippet } =>
             /\ response.status = 400
             /\ response.error = MsgInvalidType
        /\ (PayloadType \in { TypeRepo, TypeSnippet } /\ ~IsText(PayloadContent)) =>
             /\ response.status = 400
             /\ response.error = MsgMissingContent

C8_Witness ==
    /\ pc = "done"
    /\ PayloadType = Str(Lit("Repo", 4))
    /\ PayloadContent = Num(5)
    /\ response.status = 400
    /\ response.error = MsgInvalidType

RECURSIVE SumLengths(_, _, _)
\* The number of characters of s[i..j].
SumLengths(s, i, j) == IF i > j THEN 0 ELSE s[i].n + SumLengths(s, i + 1, j)

\* The number of characters from the first to the last one that is not
\* white space.
TrimmedLength(s) ==
    LET solid == { i \in 1..Len(s) : ~IsSpace(s[i]) }
    IN  IF solid = {} THEN 0
        ELSE SumLengths(s, CHOOSE i \in solid : \A j \in solid : i <= j,
                        CHOOSE i \in solid : \A j \in solid : j <= i)

\* C9: for type snippet, content that trims to fewer than 10 characters is
\* rejected with 400 as too short, also when it is longer than 50,000;
\* content longer than 50,000 is rejected with 400, as too large when it is
\* not too short; content that trims to at least 10 and has at most 50,000
\* characters passes validation.
C9_SnippetLimits ==
    (pc # "start" /\ req.method = "POST" /\ req.body.t = "object"
       /\ PayloadType = TypeSnippet /\ IsText(PayloadContent)) =>
        LET trimmed == TrimmedLength(PayloadContent.v)
            raw == SumLengths(PayloadContent.v, 1, Len(PayloadContent.v))
        IN  /\ trimmed < MinSnippetLength =>
                 response.status = 400 /\ response.error = MsgTooShort
            /\ raw > MaxSnippetLength => response.status = 400
            /\ (trimmed >= MinSnippetLength /\ raw > MaxSnippetLength) =>
                 response.error = MsgTooLarge
            /\ (trimmed >= MinSnippetLength /\ raw <= MaxSnippetLength) =>
                 validationError = NoError /\ response.status # 400

C9_Witness ==
    /\ pc = "done"
    /\ PayloadType = TypeSnippet
    /\ IsText(PayloadContent)
    /\ SumLengths(PayloadContent.v, 1, Len(PayloadContent.v)) > MaxSnippetLength
    /\ TrimmedLength(PayloadContent.v) < MinSnippetLength
    /\ TrimmedLength(PayloadContent.v) > 0
    /\ response.status = 400
    /\ response.error = MsgTooShort

\* s holds <host>/<owner>/<name>: a host of word characters, dots and
\* hyphens, a '/', an owner of word characters and hyphens, a '/', and a name
\* of word characters, dots and hyphens.
HasHostOwnerName(s) ==
    \E i \in 1..Len(s) : \E j \in (i + 2)..(Len(s) - 2) :
        /\ IsNameTok(s[i])
        /\ s[i + 1] = Slash
        /\ \A m \in (i + 2)..j : IsWordTok(s[m])
        /\ s[j + 1] = Slash
        /\ IsNameTok(s[j + 2])

CallsTo(api) == SelectSeq(calls, LAMBDA c : c.api = api)

\* C11: whenever the response is 400, no hosting-API fetch, no completion
\* call and no scan_history insert has been issued, and nothing was stored.
C11_NoCallBefore400 ==
    response.status = 400 => calls = << >> /\ history = << >>

C11_Witness ==
    /\ pc = "done"
    /\ response.status = 400
    /\ PayloadType = TypeRepo
    /\ response.error = MsgInvalidRepo
    /\ calls = << >>

\* The number of selected files of a tier.
SelectedOf(tier) ==
    Cardinality({ k \in 1..Len(filesToScan) : TierOf(filesToScan[k]) = tier })

\* The fetches of files issued so far, in order.
FileCalls == SelectSeq(calls, LAMBDA c : c.what = "file")

\* C12: for every tree the selection holds at most 12 High, 6 Medium and 2
\* Regular files, at most 20 in all, and no more files are fetched or
\* returned than were selected.
C12_SelectionCaps ==
    /\ SelectedOf("high") <= MaxHighFiles
    /\ SelectedOf("medium") <= MaxMediumFiles
    /\ SelectedOf("regular") <= MaxRegularFiles
    /\ Len(filesToScan) <= MaxHighFiles + MaxMediumFiles + MaxRegularFiles
    /\ Len(FileCalls) <= Len(filesToScan)
    /\ Len(files) <= Len(filesToScan)

C12_Witness ==
    /\ pc = "analyze"
    /\ Cardinality({ k \in 1..Len(tree) : TierOf(tree[k]) = "high" }) > MaxHighFiles
    /\ Cardinality({ k \in 1..Len(tree) : TierOf(tree[k]) = "medium" }) > MaxMediumFiles
    /\ Cardinality({ k \in 1..Len(tree) : TierOf(tree[k]) = "regular" }) > MaxRegularFiles
    /\ Len(filesToScan) = MaxHighFiles + MaxMediumFiles + MaxRegularFiles
    /\ Len(FileCalls) = Len(filesToScan)

TreeListed ==
    \E i \in 1..Len(calls) : calls[i].what = "tree" /\ calls[i].answer = "ok"

\* No call is left unanswered.
AllSettled == \A i \in 1..Len(calls) : calls[i].answer # "never"

\* C14: when the tree was listed and the fetch loop has ended with no file
\* (none selected, every fetch failed or every content was oversize), the
\* response is 422 with 'No supported code files found', and neither a
\* completion call nor a scan_history insert was issued.
C14_NoFilesGives422 ==
    (TreeListed /\ AllSettled /\ pc # "repo_file" /\ files = << >>) =>
        /\ pc = "done"
        /\ response.status = 422
        /\ response.error = MsgFetchFailed
        /\ response.details = MsgNoFiles
        /\ CallsTo("groq") = << >>
        /\ CallsTo("supabase") = << >>
        /\ history = << >>

C14_Witness ==
    /\ pc = "done"
    /\ response.details = MsgNoFiles
    /\ Len(FileCalls) = 2
    /\ FileCalls[1].answer = "threw"
    /\ FileCalls[2].answer = "ok"
    /\ FileCalls[2].size > MaxFileLength

RECURSIVE FetchedUpTo(_)
\* The selected files among the first k whose fetch brought a content of at
\* most 100,000 characters, in the order of the selection.
FetchedUpTo(k) ==
    IF k = 0 THEN << >>
    ELSE FetchedUpTo(k - 1)
         \o (IF FileCalls[k].answer = "ok" /\ FileCalls[k].size <= MaxFileLength
             THEN << filesToScan[k].path >>
             ELSE << >>)

\* C15: a failed fetch of a file leaves out only that file: every selected
\* file is fetched once, in order, the files held are those whose fetch
\* succeeded, and with at least one of them the materialization succeeds;
\* a non-success status of the metadata lookup or the tree listing ends the
\* request with 422 and is the last call.
C15_FileFailureSkipsOnlyThatFile ==
    /\ Len(SelectSeq(FileCalls, LAMBDA c : c.answer # "never")) = fileIdx - 1
    /\ [i \in 1..Len(files) |-> files[i].file] = FetchedUpTo(fileIdx - 1)
    /\ (pc \in { "analyze", "record", "done" } /\ TreeListed) =>
           fileIdx = Len(filesToScan) + 1
    /\ (fileIdx = Len(filesToScan) + 1 /\ files # << >>) =>
           /\ codeToAnalyze = JoinFiles(files)
           /\ response.status # 422
    /\ \A i \in 1..Len(calls) :
           (calls[i].what \in { "metadata", "tree" } /\ calls[i].answer = "http_error") =>
               /\ i = Len(calls)
               /\ pc = "done"
               /\ response.status = 422
               /\ response.details
                    = (IF calls[i].what = "tree" THEN MsgTreeFailed ELSE MsgMetaFailed)

C15_Witness ==
    /\ pc = "analyze"
    /\ Len(filesToScan) = 2
    /\ Len(FileCalls) = 2
    /\ FileCalls[1].answer = "threw"
    /\ FileCalls[2].answer = "ok"
    /\ Len(files) = 1
    /\ files[1].file = filesToScan[2].path

\* A fetch of the hosting API was left unanswered.
HostingSilent ==
    \E i \in 1..Len(calls) : calls[i].api = "github" /\ calls[i].answer = "never"

\* C16: when the hosting API leaves a fetch of the materialization
\* unanswered, the request does not stall: it has got its response or the
\* handler can still take a step.
C16_UnansweredFetchDoesNotStall ==
    HostingSilent => (pc = "done" \/ ENABLED Next)

\* C17: a scan_history write that returns an error or throws leaves the
\* response what it is when the write succeeds: status 200, the findings
\* analyzeCode returned and the summary counted from them.
C17_FailedWriteKeepsResponse ==
    \A i \in 1..Len(calls) :
        (calls[i].api = "supabase" /\ calls[i].answer \in { "ok", "error", "threw" }) =>
            /\ pc = "done"
            /\ response.status = 200
            /\ response.findings = findings
            /\ response.summary
                 = [total |-> Len(findings), critical |-> severityCounts.critical,
                    high |-> severityCounts.high, low |-> severityCounts.low]

C17_Witness ==
    /\ pc = "done"
    /\ CallsTo("supabase") # << >>
    /\ CallsTo("supabase")[1].answer = "threw"
    /\ history = << >>
    /\ response.status = 200
    /\ Len(response.findings) = 2

\* The write to scan_history was left unanswered.
StoreSilent ==
    \E i \in 1..Len(calls) : calls[i].api = "supabase" /\ calls[i].answer = "never"

\* C18: a scan_history write that never completes does not hold back the
\* response: the 200 response has been sent or the handler can still take a
\* step.
C18_ResponseNotBlockedByStore ==
    StoreSilent => ((pc = "done" /\ response.kind = "scan") \/ ENABLED Next)

\* C19: without the credential, analyzeCode calls the completion API never
\* and returns exactly the one Low finding about the configuration, and the
\* response is 200 with it.
C19_NoKeyGivesConfigurationFinding ==
    ~groqKey =>
        /\ CallsTo("groq") = << >>
        /\ analysis.path # "none" =>
             /\ analysis.path = "no_key"
             /\ findings = << ConfigurationFinding >>
             /\ findings[1].severity = SevLow
             /\ pc = "done" =>
                  /\ response.status = 200
                  /\ response.findings = findings

C19_Witness ==
    /\ ~groqKey
    /\ pc = "done"
    /\ response.status = 200
    /\ Len(response.findings) = 1
    /\ response.findings[1].file = Lit("configuration", 13)
    /\ PayloadType = TypeRepo

\* The element has an issue or a severity.
HasIssueOrSeverity(e) ==
    Truthy(Field(e, "issue")) \/ Truthy(Field(e, "severity"))

\* C20: of the parsed array, exactly the elements that lack both issue and
\* severity are dropped: one finding is returned for every element that has
\* an issue or a severity.
C20_DroppedOnlyWhenBothMissing ==
    analysis.path = "normalized" =>
        Len(findings)
          = Cardinality({ i \in 1..Len(analysis.parsed.v) :
                            HasIssueOrSeverity(analysis.parsed.v[i]) })


\* The inserts into scan_history the request being served has issued.
Inserts ==
    SelectSeq(calls, LAMBDA c : c.api = "supabase" /\ c.what = "insert")

\* The store is only appended to, by at most one row a step, and the only
\* call a request makes to it is one insert.
InsertOnlyStep ==
    /\ \/ history' = history
       \/ /\ Len(history') = Len(history) + 1
          /\ SubSeq(history', 1, Len(history)) = history
    /\ CallsTo("supabase")' = Inserts'
    /\ Len(Inserts') <= 1

DirWords == ExcludeWords \cup { "src/", "auth/", "api/", "routes/", "v1/" }

\* The levels of a path: its directories and the file.
Levels(path) ==
    Cardinality({ i \in 1..Len(path) : path[i].c \in DirWords }) + 1

MaxLevels == 3

\* C22: no file fetchGitHubRepo returns has a path of more than 3 levels.
C22_DepthAtMostThree ==
    \A i \in 1..Len(files) : Levels(files[i].file) <= MaxLevels

\* No fetch of a file has been answered yet.  The tree and filesToScan are
\* written once, by the answer to the tree listing, and keep their values
\* while the files are fetched: what is stated of them alone is examined
\* here.
BeforeFirstFile == fileIdx = 1

\* The item of the tree at position k passed the exclusion and extension
\* filters.
IsCandidate(k) ==
    /\ tree[k].type = "blob"
    /\ ~IsExcluded(tree[k].path)
    /\ HasSupportedExtension(tree[k].path)

\* The items pushed to each of the three arrays.
TierSets ==
    [t \in { "high", "medium", "regular" } |->
        LET array == TierFiles(tree, t)
        IN  { array[j] : j \in 1..Len(array) }]

\* C23: every candidate of the tree is in exactly one of the three tier
\* arrays and no other item is in any; a path that matches a High and a
\* Medium pattern is High; a Regular path matches no High and no Medium
\* pattern.
C23_TiersPartitionHighFirst ==
    BeforeFirstFile =>
    \A tiers \in { TierSets } :
        \A k \in 1..Len(tree) :
            /\ Cardinality({ t \in DOMAIN tiers : tree[k] \in tiers[t] })
                 = (IF IsCandidate(k) THEN 1 ELSE 0)
            /\ IsCandidate(k) =>
                 /\ (IsHighPriority(tree[k].path) /\ IsMediumPriority(tree[k].path))
                      => tree[k] \in tiers["high"]
                 /\ tree[k] \in tiers["regular"] =>
                      (~IsHighPriority(tree[k].path) /\ ~IsMediumPriority(tree[k].path))
                 /\ tree[k] \in tiers["medium"] => IsMediumPriority(tree[k].path)

C23_Witness ==
    /\ pc = "repo_file"
    /\ tree = PatternTree
    /\ IsHighPriority(tree[6].path) /\ IsMediumPriority(tree[6].path)
    /\ filesToScan = << tree[3], tree[5], tree[6], tree[4], tree[1], tree[2] >>

\* High before Medium before Regular.
TierRank(tier) == CASE tier = "high" -> 1 [] tier = "medium" -> 2 [] OTHER -> 3

\* The tier of each item of the tree.
TreeTiers == [k \in 1..Len(tree) |-> TierOf(tree[k])]

\* The position of a path in the tree.
TreePosition(path) == CHOOSE k \in 1..Len(tree) : tree[k].path = path

\* The paths come tier after tier and, inside a tier, in the order of the
\* tree.
InTierThenTreeOrder(paths) ==
    \A at \in { [i \in 1..Len(paths) |-> TreePosition(paths[i])] } :
    \A tier \in { TreeTiers } :
        \A i \in 1..Len(paths) : \A j \in (i + 1)..Len(paths) :
            \/ TierRank(tier[at[i]]) < TierRank(tier[at[j]])
            \/ tier[at[i]] = tier[at[j]] /\ at[i] < at[j]

\* The files returned are files of the selection, in its order.
FilesFollowSelection ==
    \A at \in { [i \in 1..Len(files) |->
                   { k \in 1..Len(filesToScan) : filesToScan[k].path = files[i].file }] } :
        /\ \A i \in 1..Len(files) : Cardinality(at[i]) = 1
        /\ \A i \in 1..(Len(files) - 1) :
             \A a \in at[i] : \A b \in at[i + 1] : a < b

\* The selection cap of a tier.
TierCap(tier) ==
    CASE tier = "high" -> MaxHighFiles [] tier = "medium" -> MaxMediumFiles
      [] OTHER -> MaxRegularFiles

\* How much of the content of the i-th returned file is in the text sent to
\* the model, the first MaxCodeLength characters of the assembled text.
KeptOfContent(i) ==
    LET last == StrLen(JoinFiles(SubSeq(files, 1, i)))
        first == last - StrLen(files[i].content)
    IN  IF MaxCodeLength >= last THEN StrLen(files[i].content)
        ELSE IF MaxCodeLength <= first THEN 0
        ELSE MaxCodeLength - first

\* C24: the selected files are ordered High, Medium, Regular and in tree
\* order inside a tier, and those of a tier are the first of that tier in the
\* tree; the returned files are selected files in the order of the selection;
\* and when the text sent to the model keeps some content of a file, it keeps
\* the whole content of every file before it, so of every file of a higher
\* tier.
C24_HigherTiersSurviveTruncation ==
    /\ BeforeFirstFile =>
         /\ InTierThenTreeOrder([k \in 1..Len(filesToScan) |-> filesToScan[k].path])
         /\ \A tier \in { TreeTiers } :
              \A k \in 1..Len(tree) :
                  tier[k] # "none" =>
                      ((\E j \in 1..Len(filesToScan) : filesToScan[j] = tree[k])
                        <=> Cardinality({ m \in 1..(k - 1) : tier[m] = tier[k] })
                              < TierCap(tier[k]))
    /\ FilesFollowSelection
    /\ pc = "analyze" =>
         /\ codeToAnalyze = JoinFiles(files)
         /\ \A j \in 2..Len(files) :
              KeptOfContent(j) > 0 =>
                  KeptOfContent(j - 1) = StrLen(files[j - 1].content)

C24_Witness ==
    /\ pc = "analyze"
    /\ StrLen(codeToAnalyze) > MaxCodeLength
    /\ Len(TierFiles(tree, "regular")) > MaxRegularFiles
    /\ TierOf(tree[1]) = "regular"
    /\ { TierOf(tree[TreePosition(files[i].file)]) : i \in 1..Len(files) }
         = { "high", "medium", "regular" }
    /\ KeptOfContent(1) = StrLen(files[1].content)
    /\ \E j \in 2..Len(files) :
         /\ TierOf(tree[TreePosition(files[j].file)]) = "medium"
         /\ KeptOfContent(j) > 0
         /\ KeptOfContent(j) < StrLen(files[j].content)
    /\ KeptOfContent(Len(files)) = 0

\* C25: the calls to the hosting API are the metadata lookup, then the tree
\* listing, then the fetches of the selected files in the order of the
\* selection; a call is issued only when every call before it has been
\* answered, so at most one is in flight; and there are at most 22 of them.
C25_HostingCallsSequential ==
    \A hosting \in { CallsTo("github") } :
        /\ Len(hosting) <= 2 + MaxHighFiles + MaxMediumFiles + MaxRegularFiles
        /\ Len(hosting) <= 2 + Len(filesToScan)
        /\ \A i \in 1..Len(hosting) :
             /\ hosting[i].what
                  = (IF i = 1 THEN "metadata" ELSE IF i = 2 THEN "tree" ELSE "file")
             /\ i < Len(hosting) => hosting[i].answer \in { "ok", "http_error", "threw" }
             /\ i > 2 =>
                  /\ i - 2 <= fileIdx
                  /\ hosting[i].answer = "never" => i - 2 = fileIdx

C25_Witness ==
    /\ pc = "analyze"
    /\ Len(CallsTo("github")) = 2 + MaxHighFiles + MaxMediumFiles + MaxRegularFiles
    /\ \E i \in 3..Len(calls) : calls[i].answer = "threw"
    /\ \E i \in 3..Len(calls) : calls[i].answer = "ok"

\* The request has been through analyzeCode, or is held in it.
ReachedAnalysis == analysis.path # "none" \/ completion.kind = "never"

\* The positions in calls of the calls to api.
CallPositions(api) == { i \in 1..Len(calls) : calls[i].api = api }

\* C26: no call is issued a second time: at most one completion call,
\* exactly one when the request reached analysis with the credential and
\* none without it, one metadata lookup, one tree listing and one fetch per
\* selected file at most, one insert at most; a failed hosting fetch or
\* completion call is followed by no call of the same kind for the same
\* thing; and the completion call comes after every hosting call and before
\* the insert.
C26_NoRetry ==
    /\ Len(CallsTo("groq")) <= 1
    /\ (ReachedAnalysis /\ groqKey) => Len(CallsTo("groq")) = 1
    /\ ~groqKey => CallsTo("groq") = << >>
    /\ \A what \in { "metadata", "tree", "insert" } :
         Cardinality({ i \in 1..Len(calls) : calls[i].what = what }) <= 1
    /\ Len(FileCalls) <= Len(filesToScan)
    /\ Len(SelectSeq(FileCalls, LAMBDA c : c.answer # "never")) = fileIdx - 1
    /\ \A i \in 1..Len(calls) :
         calls[i].answer \in { "http_error", "threw" } =>
             /\ calls[i].what \in { "metadata", "tree" } => i = Len(calls)
             /\ calls[i].api = "groq" =>
                  \A j \in (i + 1)..Len(calls) : calls[j].api = "supabase"
    /\ \A g \in CallPositions("groq") :
         /\ \A h \in CallPositions("github") : h < g
         /\ \A w \in CallPositions("supabase") : g < w
         /\ PayloadType = TypeRepo => fileIdx = Len(filesToScan) + 1

C26_Witness ==
    /\ pc = "done"
    /\ response.status = 200
    /\ Len(CallsTo("github")) = 4
    /\ calls[3].answer = "threw"
    /\ calls[4].answer = "ok"
    /\ calls[5].api = "groq"
    /\ calls[5].answer = "http_error"
    /\ calls[6].api = "supabase"
    /\ Len(calls) = 6

RECURSIVE ClosingBracket(_, _, _)
\* The position of the ']' that closes the '[' before position i of s, open
\* brackets deep; 0 when there is none.
ClosingBracket(s, i, open) ==
    IF i > Len(s) THEN 0
    ELSE IF s[i] = LBr THEN ClosingBracket(s, i + 1, open + 1)
    ELSE IF s[i] = RBr
    THEN IF open = 1 THEN i ELSE ClosingBracket(s, i + 1, open - 1)
    ELSE ClosingBracket(s, i + 1, open)

\* The first balanced '[...]' substring of s, << >> when there is none.
FirstBalanced(s) ==
    LET opens == { i \in 1..Len(s) : s[i] = LBr }
    IN  IF opens = {} THEN << >>
        ELSE LET first == CHOOSE i \in opens : \A j \in opens : i <= j
                 last == ClosingBracket(s, first + 1, 1)
             IN  IF last = 0 THEN << >> ELSE SubSeq(s, first, last)

\* The completion text holds a valid JSON array of objects as its first
\* balanced '[...]' substring, with a '[' or a ']' in the prose around it.
ArrayAmongBrackets ==
    /\ completion.kind = "ok"
    /\ completion.data = "message"
    /\ completion.content.t = "string"
    /\ LET text == CleanFences(completion.content.v)
           candidate == FirstBalanced(text)
           value == JsonParse(candidate)
       IN  /\ candidate # << >>
           /\ value.ok
           /\ value.val.t = "array"
           /\ \A i \in 1..Len(value.val.v) : value.val.v[i].t = "object"
           /\ Len(SelectSeq(text, LAMBDA k : k \in { LBr, RBr }))
                > Len(SelectSeq(candidate, LAMBDA k : k \in { LBr, RBr }))

\* C27: when the completion text is a valid JSON array of findings with
\* prose around it that holds a '[' or a ']', analyzeCode returns the
\* findings of the first balanced '[...]' substring.
C27_FirstBalancedArrayIsUsed ==
    (analysis.path # "none" /\ ArrayAmongBrackets) =>
        findings
          = ValidatedFindings(
              JsonParse(FirstBalanced(CleanFences(completion.content.v))).val.v)

\* The request passed validation as a repository reference and
\* fetchGitHubRepo has taken the owner and the name out of it.
RepoExtracted ==
    /\ pc = "repo_meta"
    /\ PayloadType = TypeRepo
    /\ validationError = NoError

\* C28: the owner fetchGitHubRepo puts into the hosting-API URLs is made of
\* word characters and hyphens and the name of word characters, dots and
\* hyphens, whatever stands around the reference in the content.
C28_OwnerAndNameAreClean ==
    RepoExtracted =>
        /\ \A i \in 1..Len(repo.owner) : IsWordTok(repo.owner[i])
        /\ \A i \in 1..Len(repo.name) : IsNameTok(repo.name[i])

\* The name without a trailing '.git'.
WithoutGitSuffix(s) ==
    IF Len(s) >= 2 /\ SubSeq(s, Len(s) - 1, Len(s)) = GitSuffix
    THEN SubSeq(s, 1, Len(s) - 2)
    ELSE s

\* C29: the name fetchGitHubRepo uses is the name matched in the content
\* without its trailing '.git' when it has one, and unchanged otherwise.
C29_OnlyTrailingGitRemoved ==
    RepoExtracted =>
        repo.name = WithoutGitSuffix(UrlMatch(PayloadContent.v).repo)

\* The 200 responses of scans sent so far, the one of the request being
\* served last.
ScanResponses ==
    SelectSeq(IF pc = "done" THEN Append(served, response) ELSE served,
              LAMBDA r : r.kind = "scan")

\* C30: no two 200 responses of scans carry the same report_id.
C30_ReportIdsDistinct ==
    \A i \in 1..Len(ScanResponses) : \A j \in (i + 1)..Len(ScanResponses) :
        ScanResponses[i].report_id # ScanResponses[j].report_id

=============================================================================
